---- MODULE Spec2Model ----
(***************************************************************************)
(* A model of slackclient_log_handler/__init__.py: the constructor of      *)
(* SlackclientLogHandler (channel normalisation, icon selection, mention   *)
(* resolution against the users list) and emit (mention prefixing,         *)
(* attachment building, the chat_postMessage call and the fail_silent      *)
(* policy), called from several threads.                                   *)
(*                                                                         *)
(* Python values are tagged records, so that "a str has no getMessage"     *)
(* and "int >= None is a TypeError" are visible in the model.  A str is a  *)
(* sequence of tokens: '#' and '@' are tokens of their own, every other    *)
(* token is an opaque run of characters.                                   *)
(***************************************************************************)
EXTENDS Integers, Sequences, FiniteSets

VARIABLES
    args,       \* the arguments SlackclientLogHandler(...) is called with
    directory,  \* what client.users_list().data['members'] returns
    phase,      \* "new" (not constructed), "ready" (handler built), "failed"
    handler,    \* the attributes of the handler object, None until built
    error,      \* the exception the constructor raised, None if none
    pc,         \* per thread: "idle", "sending" (inside chat_postMessage), "done"
    record,     \* per thread: the LogRecord of the current emit call
    call,       \* per thread: the keyword arguments given to chat_postMessage
    attempts,   \* per thread: results of the send attempts of the current emit
    outcome     \* per thread: how the current emit ended

vars == <<args, directory, phase, handler, error, pc, record, call, attempts, outcome>>

ctorVars == <<args, directory, phase, handler, error>>
threadVars == <<pc, record, call, attempts, outcome>>

-----------------------------------------------------------------------------
(* Python values *)

None == [kind |-> "NoneType"]
Str(s) == [kind |-> "str", val |-> s]
PyInt(n) == [kind |-> "int", val |-> n]
List(s) == [kind |-> "list", val |-> s]

\* bool(v), as used by `if`, `and`, `or`
Truthy(v) ==
    CASE v.kind = "NoneType" -> FALSE
      [] v.kind = "str" -> v.val # <<>>
      [] v.kind = "list" -> v.val # <<>>
      [] v.kind = "int" -> v.val # 0
      [] OTHER -> TRUE

\* a call that returned v / a call that raised exception e
Return(v) == [ok |-> TRUE, val |-> v]
Raise(e) == [ok |-> FALSE, exc |-> e]

-----------------------------------------------------------------------------
(* Module-level constants *)

CRITICAL == 50
FATAL == 50
ERROR == 40
WARNING == 30
INFO == 20
DEBUG == 10
NOTSET == 0

ERROR_COLOR == Str(<<"danger">>)
WARNING_COLOR == Str(<<"warning">>)
INFO_COLOR == Str(<<"#439FE0">>)

DEFAULT_EMOJI == Str(<<":heavy_exclamation_mark:">>)

\* COLORS.get(level, default)
COLORS_get(level, default) ==
    CASE level = CRITICAL -> ERROR_COLOR
      [] level = FATAL -> ERROR_COLOR
      [] level = ERROR -> ERROR_COLOR
      [] level = WARNING -> WARNING_COLOR
      [] level = INFO -> INFO_COLOR
      [] level = DEBUG -> INFO_COLOR
      [] level = NOTSET -> INFO_COLOR
      [] OTHER -> default

-----------------------------------------------------------------------------
(* The constructor *)

\* s.startswith(c) for a one-character c
startswith(s, c) == Len(s) > 0 /\ s[1] = c

\* s.lstrip('@'): every leading '@' removed
RECURSIVE lstrip_at(_)
lstrip_at(s) == IF startswith(s, "@") THEN lstrip_at(Tail(s)) ELSE s

\* lines 60-62: the channel as stored
normalize_channel_onlyhash(channel) ==
    IF ~startswith(channel.val, "#")
    THEN Str(<<"#">> \o channel.val)
    ELSE channel

normalize_channel(channel) ==
    IF ~startswith(channel.val, "#") /\ ~startswith(channel.val, "@")
    THEN Str(<<"#">> \o channel.val)
    ELSE channel

\* line 59: icon_emoji if (icon_emoji or icon_url) else DEFAULT_EMOJI
select_icon_emoji_always_default(icon_emoji, icon_url) ==
    IF Truthy(icon_emoji) THEN icon_emoji ELSE DEFAULT_EMOJI

select_icon_emoji(icon_emoji, icon_url) ==
    IF Truthy(icon_emoji) \/ Truthy(icon_url) THEN icon_emoji ELSE DEFAULT_EMOJI

\* lines 73-78: the inner for/else over user_list, from index j on: the id of
\* the first member named ping_user, or the RuntimeError of the else branch
RECURSIVE find_user_last(_, _, _)
find_user_last(user_list, ping_user, j) ==
    IF j < 1
    THEN Raise([type |-> "RuntimeError", name |-> ping_user])
    ELSE IF user_list[j].name = ping_user
         THEN Return(user_list[j].id)
         ELSE find_user_last(user_list, ping_user, j - 1)

RECURSIVE find_user_from(_, _, _)
find_user_from(user_list, ping_user, j) ==
    IF j > Len(user_list)
    THEN Raise([type |-> "RuntimeError", name |-> ping_user])
    ELSE IF user_list[j].name = ping_user
         THEN Return(user_list[j].id)
         ELSE find_user_from(user_list, ping_user, j + 1)

find_user_mut(user_list, ping_user) ==
    find_user_last(user_list, ping_user, Len(user_list))

find_user(user_list, ping_user) == find_user_from(user_list, ping_user, 1)

\* lines 70-78: the outer loop over ping_users from index i on, self.ping_users
\* being acc so far
RECURSIVE resolve_from(_, _, _, _)
resolve_from(ping_users, user_list, i, acc) ==
    IF i > Len(ping_users)
    THEN Return(acc)
    ELSE LET found == find_user(user_list, Str(lstrip_at(ping_users[i].val)))
         IN  IF found.ok
             THEN resolve_from(ping_users, user_list, i + 1, Append(acc, found.val))
             ELSE found

\* lines 64-78
resolve_ping_users(ping_users, user_list) ==
    IF Truthy(ping_users)
    THEN resolve_from(ping_users.val, user_list, 1, <<>>)
    ELSE Return(<<>>)

\* lines 47-78: SlackclientLogHandler(api_token, channel, ...): the object
\* built, or the exception raised
SlackclientLogHandler(a, user_list) ==
    LET resolved == resolve_ping_users(a.ping_users, user_list)
    IN  IF resolved.ok
        THEN Return([level |-> NOTSET,
                     stack_trace |-> a.stack_trace,
                     fail_silent |-> a.fail_silent,
                     username |-> a.username,
                     icon_url |-> a.icon_url,
                     icon_emoji |-> select_icon_emoji(a.icon_emoji, a.icon_url),
                     channel |-> normalize_channel(a.channel),
                     ping_level |-> a.ping_level,
                     ping_users |-> resolved.val])
        ELSE resolved

Construct ==
    /\ phase = "new"
    /\ LET r == SlackclientLogHandler(args, directory)
       IN  IF r.ok
           THEN phase' = "ready" /\ handler' = r.val /\ error' = None
           ELSE phase' = "failed" /\ handler' = None /\ error' = r.exc
    /\ UNCHANGED <<args, directory>>
    /\ UNCHANGED threadVars

-----------------------------------------------------------------------------
(* emit *)

\* x.getMessage(): only a LogRecord has the method
getMessage(x) ==
    IF x.kind = "LogRecord"
    THEN Return(Str(x.msg))
    ELSE Raise("AttributeError")

\* line 82-83
build_msg(rec) == rec

\* '<@%s> %s' % (user, text)
format_mention(user, text) == Str(<<"<@">> \o user.val \o <<"> ">> \o text.val)

\* record.levelno >= self.ping_level
levelno_ge(levelno, ping_level) ==
    IF ping_level.kind = "int"
    THEN Return(levelno >= ping_level.val)
    ELSE Raise("TypeError")

\* line 99: self.ping_users and record.levelno >= self.ping_level
ping_condition(self, rec) ==
    IF self.ping_users = <<>>
    THEN Return(FALSE)
    ELSE levelno_ge(rec.levelno, self.ping_level)

\* lines 100-101: the loop over self.ping_users from index i on
RECURSIVE ping_loop(_, _, _)
ping_loop(ping_users, i, message) ==
    IF i > Len(ping_users)
    THEN Return(message)
    ELSE LET text == getMessage(message)
         IN  IF text.ok
             THEN ping_loop(ping_users, i + 1, format_mention(ping_users[i], text.val))
             ELSE text

\* '\n'.join(lines)
RECURSIVE join_lines(_)
join_lines(lines) ==
    IF Len(lines) = 0 THEN <<>>
    ELSE IF Len(lines) = 1 THEN <<lines[1]>>
    ELSE <<lines[1], "\n">> \o join_lines(Tail(lines))

\* traceback.format_exception(*exc_info)
format_exception(exc_info) == exc_info.lines

\* json.dumps(obj)
json_dumps(obj) == [kind |-> "str", json |-> obj]

\* lines 85-94
build_trace(self, rec, fallback) ==
    LET fb == getMessage(fallback)
        color == COLORS_get(self.level, INFO_COLOR)
    IN  IF ~fb.ok
        THEN fb
        ELSE IF Truthy(rec.exc_info)
             THEN Return([fallback |-> fb.val, color |-> color,
                          text |-> Str(join_lines(format_exception(rec.exc_info)))])
             ELSE Return([fallback |-> fb.val, color |-> color])

\* lines 103-107, message being a LogRecord or a str
build_attachments(self, rec, message) ==
    IF self.stack_trace
    THEN LET fallback == getMessage(message)
         IN  IF ~fallback.ok
             THEN fallback
             ELSE LET trace == build_trace(self, rec, fallback.val)
                  IN  IF trace.ok THEN Return(json_dumps(List(<<trace.val>>))) ELSE trace
    ELSE Return(None)

\* lines 97-116: everything emit does before control enters chat_postMessage:
\* the keyword arguments of the call, or the exception raised on the way
emit_prepare(self, rec) ==
    LET cond == ping_condition(self, rec)
    IN  IF ~cond.ok
        THEN cond
        ELSE LET message == IF cond.val
                            THEN ping_loop(self.ping_users, 1, build_msg(rec))
                            ELSE Return(build_msg(rec))
             IN  IF ~message.ok
                 THEN message
                 ELSE LET attachments == build_attachments(self, rec, message.val)
                      IN  IF ~attachments.ok
                          THEN attachments
                          ELSE LET text == getMessage(message.val)
                               IN  IF ~text.ok
                                   THEN text
                                   ELSE Return([text |-> text.val,
                                                channel |-> self.channel,
                                                username |-> self.username,
                                                icon_url |-> self.icon_url,
                                                icon_emoji |-> self.icon_emoji,
                                                attachments |-> attachments.val])

\* lines 118-122: what emit does with a SlackClientError of chat_postMessage
on_send_error(self) == IF self.fail_silent THEN "returned" ELSE "SlackClientError"

\* what emit leaves of the handler object: it assigns no attribute of self
emit_frame_consuming ==
    /\ handler' = [handler EXCEPT !.ping_users = IF @ = <<>> THEN @ ELSE Tail(@)]
    /\ UNCHANGED <<args, directory, phase, error>>

emit_frame == UNCHANGED ctorVars

\* lines 97-116: thread t calls emit(rec) and runs it up to the send
EmitBegin(t, rec) ==
    /\ phase = "ready"
    /\ pc[t] \in {"idle", "done"}
    /\ LET p == emit_prepare(handler, rec)
       IN  /\ record' = [record EXCEPT ![t] = rec]
           /\ attempts' = [attempts EXCEPT ![t] = <<>>]
           /\ IF p.ok
              THEN /\ pc' = [pc EXCEPT ![t] = "sending"]
                   /\ call' = [call EXCEPT ![t] = p.val]
                   /\ outcome' = [outcome EXCEPT ![t] = "none"]
              ELSE /\ pc' = [pc EXCEPT ![t] = "done"]
                   /\ call' = [call EXCEPT ![t] = None]
                   /\ outcome' = [outcome EXCEPT ![t] = p.exc]
    /\ emit_frame

\* lines 110-117: chat_postMessage returns
SendOk(t) ==
    /\ pc[t] = "sending"
    /\ attempts' = [attempts EXCEPT ![t] = Append(@, "ok")]
    /\ pc' = [pc EXCEPT ![t] = "done"]
    /\ outcome' = [outcome EXCEPT ![t] = "returned"]
    /\ UNCHANGED <<record, call>>
    /\ emit_frame

\* lines 110-122: chat_postMessage raises a SlackClientError
SendFail(t) ==
    /\ pc[t] = "sending"
    /\ attempts' = [attempts EXCEPT ![t] = Append(@, "SlackClientError")]
    /\ pc' = [pc EXCEPT ![t] = "done"]
    /\ outcome' = [outcome EXCEPT ![t] = on_send_error(handler)]
    /\ UNCHANGED <<record, call>>
    /\ emit_frame

-----------------------------------------------------------------------------
(* Inputs *)

NumThreads == 2
Threads == 1..NumThreads

MaxChannelLen == 2
MaxPingUsers == 2
MaxDirectory == 3

\* all sequences over S of length 0..n
RECURSIVE SeqsUpTo(_, _)
SeqsUpTo(S, n) ==
    IF n = 0 THEN {<<>>}
    ELSE LET shorter == SeqsUpTo(S, n - 1)
         IN  shorter \cup {Append(s, x) : s \in {q \in shorter : Len(q) = n - 1}, x \in S}

DefaultArgs ==
    [channel |-> Str(<<"general">>),
     username |-> Str(<<"Python logger">>),
     icon_url |-> None,
     icon_emoji |-> None,
     fail_silent |-> FALSE,
     ping_users |-> None,
     ping_level |-> None,
     stack_trace |-> TRUE]

Alice == Str(<<"alice">>)
Bob == Str(<<"bob">>)

\* the users list: the member at position j has id Uj, names may repeat
DirectoryNames == {Alice, Bob, Str(<<"@", "alice">>)}
IdAt(j) == Str(<<"U", j>>)
Directories ==
    {[j \in 1..Len(names) |-> [name |-> names[j], id |-> IdAt(j)]] :
        names \in SeqsUpTo(DirectoryNames, MaxDirectory)}

PingNames ==
    {Alice, Bob, Str(<<"@", "bob">>), Str(<<"@", "@", "alice">>), Str(<<"carol">>), Str(<<>>)}
PingUserLists == {List(s) : s \in SeqsUpTo(PingNames, MaxPingUsers)}

Channels == {Str(s) : s \in SeqsUpTo({"#", "@", "general"}, MaxChannelLen)}
IconUrls == {None, Str(<<>>), Str(<<"http://x">>)}
IconEmojis == {None, Str(<<>>), Str(<<":smile:">>)}

\* constructor calls that vary channel and icons
ChannelIconArgs ==
    {[DefaultArgs EXCEPT !.channel = c, !.icon_url = u, !.icon_emoji = e] :
        c \in Channels, u \in IconUrls, e \in IconEmojis}

\* constructor calls that vary the mention configuration
PingArgs ==
    {[DefaultArgs EXCEPT !.ping_users = p, !.fail_silent = f] :
        p \in PingUserLists \cup {None}, f \in BOOLEAN}

ExampleDirectory ==
    <<[name |-> Alice, id |-> IdAt(1)], [name |-> Bob, id |-> IdAt(2)]>>

\* constructor calls for the handlers emit is exercised on
EmitArgs ==
    {[DefaultArgs EXCEPT !.ping_users = p, !.ping_level = l,
                         !.fail_silent = f, !.stack_trace = s] :
        p \in {None, List(<<Alice>>), List(<<Alice, Str(<<"@", "bob">>)>>)},
        l \in {None, PyInt(WARNING), PyInt(ERROR)},
        f \in BOOLEAN, s \in BOOLEAN}

ExcInfo == [kind |-> "exc_info",
            lines |-> <<"Traceback (most recent call last):", "  File f, line 1", "ValueError: x">>]

RecordLevels == {DEBUG, 25, WARNING, ERROR, CRITICAL}
Records ==
    {[kind |-> "LogRecord", levelno |-> n, msg |-> <<"boom">>, exc_info |-> e] :
        n \in RecordLevels, e \in {None, ExcInfo}}

-----------------------------------------------------------------------------
(* Specifications *)

ThreadsInit ==
    /\ pc = [t \in Threads |-> "idle"]
    /\ record = [t \in Threads |-> None]
    /\ call = [t \in Threads |-> None]
    /\ attempts = [t \in Threads |-> <<>>]
    /\ outcome = [t \in Threads |-> "none"]

NewInit ==
    /\ phase = "new"
    /\ handler = None
    /\ error = None
    /\ ThreadsInit

\* emit on handlers built from EmitArgs
Init ==
    /\ args \in EmitArgs
    /\ directory = ExampleDirectory
    /\ NewInit

Next ==
    \/ Construct
    \/ \E t \in Threads, rec \in Records : EmitBegin(t, rec)
    \/ \E t \in Threads : SendOk(t)
    \/ \E t \in Threads : SendFail(t)

Spec == Init /\ [][Next]_vars

\* the constructor alone, over a wide range of calls
InitCtor ==
    /\ \/ args \in ChannelIconArgs /\ directory = ExampleDirectory
       \/ args \in PingArgs /\ directory \in Directories
    /\ NewInit

NextCtor == Construct

SpecCtor == InitCtor /\ [][NextCtor]_vars

-----------------------------------------------------------------------------
(* Properties of the constructor, checked under SpecCtor *)

HasPrefix(s) == Len(s) > 0 /\ s[1] \in {"#", "@"}

\* r is s without its leading '@' characters
IsStripped(r, s) ==
    \E k \in 0..Len(s) :
        /\ \A i \in 1..k : s[i] = "@"
        /\ r = SubSeq(s, k + 1, Len(s))
        /\ (r = <<>> \/ r[1] # "@")

\* s without its leading '@' characters
StrippedName(s) ==
    CHOOSE r \in {SubSeq(s, k, Len(s)) : k \in 1..(Len(s) + 1)} : IsStripped(r, s)

\* the positions of the directory whose entry has name n
Matches(n) == {j \in 1..Len(directory) : directory[j].name.val = n}

\* C5: mention resolution is all-or-nothing: for a non-empty ping_users the
\* constructor succeeds exactly when every requested name, leading '@'
\* stripped, is the name of some directory entry; the resolved ids are then as
\* many as the requested names, the i-th being the id of the first entry with
\* the i-th name; otherwise a RuntimeError is raised and there is no handler,
\* whatever fail_silent is.
C5_ResolutionAllOrNothing ==
    (phase # "new" /\ args.ping_users # None /\ args.ping_users.val # <<>>) =>
        LET names == args.ping_users.val
            Resolvable(i) == Matches(StrippedName(names[i].val)) # {}
            FirstId(i) ==
                LET m == Matches(StrippedName(names[i].val))
                    first == CHOOSE j \in m : \A q \in m : j <= q
                IN  directory[first].id
        IN  /\ phase = "ready" <=> \A i \in 1..Len(names) : Resolvable(i)
            /\ phase = "ready" =>
                /\ Len(handler.ping_users) = Len(names)
                /\ \A i \in 1..Len(names) : handler.ping_users[i] = FirstId(i)
            /\ phase = "failed" =>
                /\ handler = None
                /\ error.type = "RuntimeError"

\* C5 witness: two names resolved, one written with '@', the directory holding
\* the second name twice
C5_Witness ==
    /\ phase = "ready"
    /\ args.ping_users = List(<<Str(<<"@", "bob">>), Alice>>)
    /\ directory = <<[name |-> Alice, id |-> IdAt(1)],
                     [name |-> Bob, id |-> IdAt(2)],
                     [name |-> Alice, id |-> IdAt(3)]>>
    /\ handler.ping_users = <<IdAt(2), IdAt(1)>>

\* C6: a channel that starts with '#' or '@' is stored unchanged, any other
\* channel s is stored as '#' + s; the stored channel starts with '#' or '@',
\* and normalising it again changes nothing.
C6_ChannelNormalization ==
    phase = "ready" =>
        LET c == args.channel.val
            s == handler.channel.val
        IN  /\ HasPrefix(c) => s = c
            /\ ~HasPrefix(c) => s = <<"#">> \o c
            /\ HasPrefix(s)
            /\ normalize_channel(handler.channel) = handler.channel

\* C6 witness: a channel without prefix has been given one
C6_Witness ==
    /\ phase = "ready"
    /\ args.channel = Str(<<"general", "@">>)
    /\ handler.channel = Str(<<"#", "general", "@">>)

Default_token == Str(<<":heavy_exclamation_mark:">>)

\* C7 as stated, "supplied" meaning "not None": neither icon supplied stores
\* the default emoji and no URL; only the URL supplied stores no emoji and the
\* URL; only the emoji supplied stores the emoji; both supplied stores both;
\* the default emoji is stored only when neither is supplied.
C7_IconSelection_NotNone ==
    phase = "ready" =>
        LET u == args.icon_url
            e == args.icon_emoji
        IN  /\ (u = None /\ e = None) =>
                  (handler.icon_emoji = Default_token /\ handler.icon_url = None)
            /\ (u # None /\ e = None) =>
                  (handler.icon_emoji = None /\ handler.icon_url = u)
            /\ (u = None /\ e # None) => handler.icon_emoji = e
            /\ (u # None /\ e # None) =>
                  (handler.icon_emoji = e /\ handler.icon_url = u)
            /\ handler.icon_emoji = Default_token => (u = None /\ e = None)

Supplied(v) == v # None /\ v # Str(<<>>)

\* C7 amended, "supplied" meaning "a non-empty value" (an empty string counts
\* as not supplied): neither supplied stores the default emoji and the URL as
\* given; only the URL supplied stores the emoji as given (None or empty, not
\* the default) and the URL; only the emoji supplied stores the emoji; both
\* supplied stores both; the default emoji is stored only when neither is.
C7_IconSelection ==
    phase = "ready" =>
        LET u == args.icon_url
            e == args.icon_emoji
        IN  /\ (~Supplied(u) /\ ~Supplied(e)) =>
                  (handler.icon_emoji = Default_token /\ handler.icon_url = u)
            /\ (Supplied(u) /\ ~Supplied(e)) =>
                  (handler.icon_emoji = e /\ handler.icon_url = u)
            /\ (~Supplied(u) /\ Supplied(e)) => handler.icon_emoji = e
            /\ (Supplied(u) /\ Supplied(e)) =>
                  (handler.icon_emoji = e /\ handler.icon_url = u)
            /\ handler.icon_emoji = Default_token => (~Supplied(u) /\ ~Supplied(e))

\* C7 witness: an empty icon URL and no emoji: the default emoji is stored
C7_Witness ==
    /\ phase = "ready"
    /\ args.icon_url = Str(<<>>)
    /\ args.icon_emoji = None
    /\ handler.icon_emoji = Default_token

-----------------------------------------------------------------------------
(* Properties of emit, checked under Spec *)

Done(t) == phase = "ready" /\ pc[t] = "done"

\* the attachment list given to chat_postMessage, <<>> when there is no call
\* or the attachments argument is None
SentAttachments(t) ==
    IF call[t] = None THEN <<>>
    ELSE IF call[t].attachments = None THEN <<>>
    ELSE call[t].attachments.json.val

\* C1: one call of emit makes exactly one send attempt: not zero when emit
\* has ended, never more than one.
C1_ExactlyOneSend ==
    \A t \in Threads :
        /\ Len(attempts[t]) <= 1
        /\ Done(t) => Len(attempts[t]) = 1

\* C2: when no send succeeds, emit returns normally if fail_silent is true and
\* raises the SlackClientError if it is false.
C2_FailurePolicy ==
    \A t \in Threads :
        (Done(t) /\ \A i \in 1..Len(attempts[t]) : attempts[t][i] # "ok") =>
            outcome[t] = IF handler.fail_silent THEN "returned" ELSE "SlackClientError"

\* C3: with resolved ids [U1, U2] and ping_level WARNING the text sent for a
\* record at WARNING or above is '<@U1> <@U2> ' + message, and for a record
\* below WARNING it is the message.
C3_MentionPrefix ==
    (/\ phase = "ready"
     /\ handler.ping_users = <<IdAt(1), IdAt(2)>>
     /\ handler.ping_level = PyInt(WARNING)) =>
        \A t \in Threads :
            pc[t] = "done" =>
                /\ call[t] # None
                /\ call[t].text =
                      IF record[t].levelno >= WARNING
                      THEN Str(<<"<@", "U", 1, "> ", "<@", "U", 2, "> ">> \o record[t].msg)
                      ELSE Str(record[t].msg)

\* C4: stack_trace false: no attachment is sent; stack_trace true: exactly one
\* attachment, whose text is absent when the record has no exc_info and
\* present and non-empty when it has.
C4_AttachmentPresence ==
    \A t \in Threads :
        Done(t) =>
            /\ call[t] # None
            /\ ~handler.stack_trace => SentAttachments(t) = <<>>
            /\ handler.stack_trace =>
                /\ Len(SentAttachments(t)) = 1
                /\ record[t].exc_info = None =>
                      "text" \notin DOMAIN SentAttachments(t)[1]
                /\ record[t].exc_info # None =>
                      /\ "text" \in DOMAIN SentAttachments(t)[1]
                      /\ SentAttachments(t)[1].text.val # <<>>

\* the color the mapping gives a record's level
LevelColor(levelno) ==
    IF levelno \in {40, 50} THEN Str(<<"danger">>)
    ELSE IF levelno = 30 THEN Str(<<"warning">>)
    ELSE Str(<<"#439FE0">>)

\* C8: with stack_trace on, the attachment sent for a record has the color the
\* mapping gives the record's own level, the default for an unmapped level.
C8_ColorOfRecordLevel ==
    \A t \in Threads :
        (Done(t) /\ handler.stack_trace) =>
            /\ Len(SentAttachments(t)) = 1
            /\ SentAttachments(t)[1].color = LevelColor(record[t].levelno)

\* C9: with stack_trace on, the fallback of the attachment sent is the
\* record's rendered message, without any mention token.
C9_FallbackIsPlainMessage ==
    \A t \in Threads :
        (Done(t) /\ handler.stack_trace) =>
            /\ Len(SentAttachments(t)) = 1
            /\ SentAttachments(t)[1].fallback = Str(record[t].msg)

\* C10: once the handler is constructed no step of any emit call changes it:
\* channel, username, icons, fail_silent, ping_level, stack_trace and the
\* resolved ids keep their values and the object gains no attribute.
C10_EmitLeavesHandlerUnchanged ==
    [][phase = "ready" => (phase' = "ready" /\ handler' = handler)]_vars

\* C10 witness: one emit has swallowed a failed send while another, of a
\* record that pings, has raised
C10_Witness ==
    /\ phase = "ready"
    /\ handler.ping_users # <<>>
    /\ \E t1, t2 \in Threads :
        /\ pc[t1] = "done" /\ attempts[t1] = <<"SlackClientError">>
        /\ outcome[t1] = "returned"
        /\ pc[t2] = "done" /\ outcome[t2] = "AttributeError"

====
